---- MODULE Spec2Model ----
(***************************************************************************)
(* Campus Companion API (src/main.py): create/list handlers over a         *)
(* document store, plus the keyword chatbot.                               *)
(*                                                                         *)
(* Encoding.  A Python str is a tuple of one-character strings, so that    *)
(* lower(), substring search, lexicographic comparison and hex parsing     *)
(* are computed.  An Optional[T] value is None == <<>> or Some(v) == <<v>>.*)
(* An ObjectId is a natural number; its str() is its zero-padded lower     *)
(* case hexadecimal spelling of OidWidth characters.  A datetime is a      *)
(* natural number.  A formatted answer is a record holding its literal     *)
(* template and the values substituted into it.                            *)
(***************************************************************************)
EXTENDS Integers, Sequences, FiniteSets, TLC

VARIABLES course, classsession, assignment, note, focussession,
          pending, resp, req, returned

store == <<course, classsession, assignment, note, focussession>>
vars == <<course, classsession, assignment, note, focussession,
          pending, resp, req, returned>>

-----------------------------------------------------------------------------
(* Bounds of the model *)

\* Spec: documents in the store, requests in flight included
MaxDocs == 3
\* SpecSessions: courses, and class sessions stored or in flight
MaxCourses == 2
MaxClassSessions == 2
\* SpecAssignments: stored assignments
MaxAssignments == 3
\* SpecChat: documents in the store
MaxChatDocs == 3
\* SpecClass: stored class sessions
MaxTodaySessions == 3
\* SpecDue: stored assignments (more than the chatbot lists)
MaxDueAssignments == 6

Workers == {1, 2}

-----------------------------------------------------------------------------
(* Optional values *)

None == <<>>
Some(v) == <<v>>

\* Python truthiness of an Optional[str]: None and "" are falsy
Truthy(o) == o # None /\ o[1] # <<>>

-----------------------------------------------------------------------------
(* Strings *)

UpperCase == <<"A","B","C","D","E","F","G","H","I","J","K","L","M",
               "N","O","P","Q","R","S","T","U","V","W","X","Y","Z">>
LowerCase == <<"a","b","c","d","e","f","g","h","i","j","k","l","m",
               "n","o","p","q","r","s","t","u","v","w","x","y","z">>

IndexIn(c, alphabet) ==
    IF \E i \in 1..Len(alphabet) : alphabet[i] = c
    THEN CHOOSE i \in 1..Len(alphabet) : alphabet[i] = c
    ELSE 0

\* str.lower(), one character
LowerChar(c) == IF IndexIn(c, UpperCase) > 0 THEN LowerCase[IndexIn(c, UpperCase)] ELSE c
\* str.upper(), one character (used to spell inputs only)
UpperChar(c) == IF IndexIn(c, LowerCase) > 0 THEN UpperCase[IndexIn(c, LowerCase)] ELSE c

Lower(s) == [i \in 1..Len(s) |-> LowerChar(s[i])]
Upper(s) == [i \in 1..Len(s) |-> UpperChar(s[i])]

\* Python's "sub in s"
Contains(s, sub) ==
    \E i \in 1..(Len(s) - Len(sub) + 1) : SubSeq(s, i, i + Len(sub) - 1) = sub

\* Code point order of the characters that occur in the stored strings
CharOrder == <<" ", "-", "0","1","2","3","4","5","6","7","8","9", ":">>
                \o UpperCase \o LowerCase
Ord(c) == IndexIn(c, CharOrder)

\* Python's s < t on str: lexicographic by code point, a proper prefix is smaller
RECURSIVE StrLess(_, _)
StrLess(s, t) ==
    IF t = <<>> THEN FALSE
    ELSE IF s = <<>> THEN TRUE
    ELSE IF Ord(Head(s)) # Ord(Head(t)) THEN Ord(Head(s)) < Ord(Head(t))
    ELSE StrLess(Tail(s), Tail(t))

-----------------------------------------------------------------------------
(* ObjectId *)

\* number of hexadecimal characters of an ObjectId spelling (24 in bson, scaled down)
OidWidth == 2

HexDigits == <<"0","1","2","3","4","5","6","7","8","9","a","b","c","d","e","f">>

HexVal(c) == IndexIn(LowerChar(c), HexDigits) - 1

\* str(ObjectId): lower-case hexadecimal, fixed width
RECURSIVE ToHex(_, _)
ToHex(n, w) == IF w = 0 THEN <<>> ELSE Append(ToHex(n \div 16, w - 1), HexDigits[(n % 16) + 1])
StrOid(oid) == ToHex(oid, OidWidth)

\* ObjectId.is_valid(s) for a str: OidWidth hexadecimal characters of either case
ObjectIdIsValid(s) ==
    /\ Len(s) = OidWidth
    /\ \A i \in 1..Len(s) : HexVal(s[i]) >= 0

\* ObjectId(s) for a valid s
RECURSIVE FromHex(_)
FromHex(s) == IF s = <<>> THEN 0 ELSE 16 * FromHex(SubSeq(s, 1, Len(s) - 1)) + HexVal(s[Len(s)])
ObjectId(s) == FromHex(s)

-----------------------------------------------------------------------------
(* Document store *)

\* first identifier the store generates in each collection; identifiers are
\* unique across the store and grow with every insert
CourseOidBase == 10
ClassSessionOidBase == 26
AssignmentOidBase == 42
NoteOidBase == 58
FocusSessionOidBase == 74

NewOid(base, coll) == base + Len(coll)

\* create_document(kind, data): the collection after the insert of data under a
\* fresh identifier; the handler gets str(identifier) back
create_document(coll, base, data) == Append(coll, [_id |-> NewOid(base, coll)] @@ data)
InsertedId(coll, base) == StrOid(NewOid(base, coll))

\* equality filter of find()/get_documents(): every key of the filter equals the
\* document's field
Matches(doc, filt) == \A k \in DOMAIN filt : doc[k] = filt[k]

RECURSIVE Find(_, _)
Find(coll, filt) ==
    IF coll = <<>> THEN <<>>
    ELSE IF Matches(Head(coll), filt) THEN <<Head(coll)>> \o Find(Tail(coll), filt)
    ELSE Find(Tail(coll), filt)

get_documents(coll, filt) == Find(coll, filt)

\* find_one({"_id": oid}): the documents with that identifier (empty when none)
find_one_by_id(coll, oid) == Find(coll, [_id |-> oid])

NoFilter == <<>>

-----------------------------------------------------------------------------
(* Helpers of main.py *)

\* mutant: the identifier is read from a key the document does not have
to_str_id_wrong_key(doc) == [doc EXCEPT !._id = <<"N","o","n","e">>]

to_str_id(doc) == [doc EXCEPT !._id = StrOid(@)]

StrIds(items) == [i \in 1..Len(items) |-> to_str_id(items[i])]

Ok(op, body) == [op |-> op, status |-> 200, body |-> body]
HTTPException(op, code, detail) == [op |-> op, status |-> code, body |-> [detail |-> detail]]

\* the identifiers the create handlers have returned, with the submitted fields
Returned(kind, id, data) == [returned EXCEPT ![kind] = @ \cup {[_id |-> id, data |-> data]}]

-----------------------------------------------------------------------------
(* Initial state: empty store, no request in flight *)

Init ==
    /\ course = <<>>
    /\ classsession = <<>>
    /\ assignment = <<>>
    /\ note = <<>>
    /\ focussession = <<>>
    /\ pending = [w \in Workers |-> None]
    /\ resp = Ok("start", <<>>)
    /\ req = [op |-> "start"]
    /\ returned = [course |-> {}, classsession |-> {}, assignment |-> {}, note |-> {},
                   focussession |-> {}]

-----------------------------------------------------------------------------
(* Handlers *)

read_root ==
    /\ req' = [op |-> "read_root"]
    /\ resp' = Ok("read_root", [message |-> "Campus Companion API running"])
    /\ UNCHANGED <<store, pending, returned>>

create_course(c) ==
    /\ req' = [op |-> "create_course", payload |-> c]
    /\ course' = create_document(course, CourseOidBase, c)
    /\ resp' = Ok("create_course", [_id |-> InsertedId(course, CourseOidBase)])
    /\ returned' = Returned("course", InsertedId(course, CourseOidBase), c)
    /\ UNCHANGED <<classsession, assignment, note, focussession, pending>>

list_courses ==
    /\ req' = [op |-> "list_courses"]
    /\ resp' = Ok("list_courses", StrIds(get_documents(course, NoFilter)))
    /\ UNCHANGED <<store, pending, returned>>

\* mutant: a malformed course_id is reported as not found
create_class_session_check_no_400(w, cs) ==
    /\ pending[w] = None
    /\ req' = [op |-> "create_class_session", payload |-> cs]
    /\ IF ~ObjectIdIsValid(cs.course_id) \/ find_one_by_id(course, ObjectId(cs.course_id)) = <<>>
       THEN /\ resp' = HTTPException("create_class_session", 404, "Course not found")
            /\ UNCHANGED pending
       ELSE /\ pending' = [pending EXCEPT ![w] = Some(cs)]
            /\ UNCHANGED resp
    /\ UNCHANGED <<store, returned>>

\* mutant: the lookup drops its filter and finds any course
find_one_course_any(oid) == Find(course, NoFilter)

\* db["course"].find_one({"_id": oid})
find_one_course(oid) == find_one_by_id(course, oid)

\* create_class_session, first store call: validation and course lookup.
\* The handler runs on a worker thread; the insert is a second store call.
create_class_session_check(w, cs) ==
    /\ pending[w] = None
    /\ req' = [op |-> "create_class_session", payload |-> cs]
    /\ IF ~ObjectIdIsValid(cs.course_id)
       THEN /\ resp' = HTTPException("create_class_session", 400, "Invalid course_id")
            /\ UNCHANGED pending
       ELSE IF find_one_course(ObjectId(cs.course_id)) = <<>>
       THEN /\ resp' = HTTPException("create_class_session", 404, "Course not found")
            /\ UNCHANGED pending
       ELSE /\ pending' = [pending EXCEPT ![w] = Some(cs)]
            /\ UNCHANGED resp
    /\ UNCHANGED <<store, returned>>

\* create_class_session, second store call: the insert
create_class_session_insert(w) ==
    /\ pending[w] # None
    /\ LET cs == pending[w][1] IN
        /\ req' = [op |-> "create_class_session", payload |-> cs]
        /\ classsession' = create_document(classsession, ClassSessionOidBase, cs)
        /\ resp' = Ok("create_class_session",
                       [_id |-> InsertedId(classsession, ClassSessionOidBase)])
        /\ returned' = Returned("classsession", InsertedId(classsession, ClassSessionOidBase), cs)
    /\ pending' = [pending EXCEPT ![w] = None]
    /\ UNCHANGED <<course, assignment, note, focussession>>

\* mutant: the filter is applied to every non-empty course_id
ClassSessionFilterUnchecked(course_id) ==
    IF Truthy(course_id) THEN [course_id |-> course_id[1]] ELSE NoFilter

ClassSessionFilter(course_id) ==
    IF Truthy(course_id) /\ ObjectIdIsValid(course_id[1])
    THEN [course_id |-> course_id[1]]
    ELSE NoFilter

list_class_sessions(course_id) ==
    /\ req' = [op |-> "list_class_sessions", course_id |-> course_id]
    /\ resp' = Ok("list_class_sessions",
                   StrIds(get_documents(classsession, ClassSessionFilter(course_id))))
    /\ UNCHANGED <<store, pending, returned>>

create_assignment(payload) ==
    /\ req' = [op |-> "create_assignment", payload |-> payload]
    /\ assignment' = create_document(assignment, AssignmentOidBase, payload)
    /\ resp' = Ok("create_assignment", [_id |-> InsertedId(assignment, AssignmentOidBase)])
    /\ returned' = Returned("assignment", InsertedId(assignment, AssignmentOidBase), payload)
    /\ UNCHANGED <<course, classsession, note, focussession, pending>>

\* mutant: completed is tested for truth, so completed=false is no filter
AssignmentFilterTruthy(course_id, completed) ==
    (IF Truthy(course_id) THEN [course_id |-> course_id] ELSE NoFilter)
        @@ (IF completed = Some(TRUE) THEN [completed |-> TRUE] ELSE NoFilter)

AssignmentFilter(course_id, completed) ==
    (IF Truthy(course_id) THEN [course_id |-> course_id] ELSE NoFilter)
        @@ (IF completed # None THEN [completed |-> completed[1]] ELSE NoFilter)

list_assignments(course_id, completed) ==
    /\ req' = [op |-> "list_assignments", course_id |-> course_id, completed |-> completed]
    /\ resp' = Ok("list_assignments",
                   StrIds(get_documents(assignment, AssignmentFilter(course_id, completed))))
    /\ UNCHANGED <<store, pending, returned>>

create_note(n) ==
    /\ req' = [op |-> "create_note", payload |-> n]
    /\ note' = create_document(note, NoteOidBase, n)
    /\ resp' = Ok("create_note", [_id |-> InsertedId(note, NoteOidBase)])
    /\ returned' = Returned("note", InsertedId(note, NoteOidBase), n)
    /\ UNCHANGED <<course, classsession, assignment, focussession, pending>>

NoteFilter(subject) == IF Truthy(subject) THEN [subject |-> subject] ELSE NoFilter

list_notes(subject) ==
    /\ req' = [op |-> "list_notes", subject |-> subject]
    /\ resp' = Ok("list_notes", StrIds(get_documents(note, NoteFilter(subject))))
    /\ UNCHANGED <<store, pending, returned>>

create_focus_session(fs) ==
    /\ req' = [op |-> "create_focus_session", payload |-> fs]
    /\ focussession' = create_document(focussession, FocusSessionOidBase, fs)
    /\ resp' = Ok("create_focus_session",
                   [_id |-> InsertedId(focussession, FocusSessionOidBase)])
    /\ returned' = Returned("focussession", InsertedId(focussession, FocusSessionOidBase), fs)
    /\ UNCHANGED <<course, classsession, assignment, note, pending>>

list_focus_sessions ==
    /\ req' = [op |-> "list_focus_sessions"]
    /\ resp' = Ok("list_focus_sessions", StrIds(get_documents(focussession, NoFilter)))
    /\ UNCHANGED <<store, pending, returned>>

-----------------------------------------------------------------------------
(* Chatbot *)

NextClassKw == <<"n","e","x","t"," ","c","l","a","s","s">>
UpcomingClassKw == <<"u","p","c","o","m","i","n","g"," ","c","l","a","s","s">>
DueKw == <<"d","u","e">>
AssignmentKw == <<"a","s","s","i","g","n","m","e","n","t">>
NoteKw == <<"n","o","t","e">>

CoursePlaceholder == <<"C","o","u","r","s","e">>
TBA == <<"T","B","A">>
Dash == <<" ","-"," ">>

\* datetime.max: later than every stored datetime (the store keeps milliseconds,
\* datetime.max has microseconds)
DatetimeMax == 9999
\* items[:5]
TopCount == 5

Answer(template, args) == [template |-> template, args |-> args]

\* sorted(sessions, key=start_time): stable insertion after the last element
\* that is not greater
RECURSIVE InsertByStartTime(_, _)
InsertByStartTime(sorted, x) ==
    IF sorted = <<>> THEN <<x>>
    ELSE IF StrLess(x.start_time, sorted[Len(sorted)].start_time)
         THEN Append(InsertByStartTime(SubSeq(sorted, 1, Len(sorted) - 1), x),
                     sorted[Len(sorted)])
         ELSE Append(sorted, x)

\* mutant: the sessions are left in stored order
Unsorted(items) == items

RECURSIVE SortedByStartTime(_)
SortedByStartTime(items) ==
    IF items = <<>> THEN <<>>
    ELSE InsertByStartTime(SortedByStartTime(SubSeq(items, 1, Len(items) - 1)),
                           items[Len(items)])

\* mutant: a missing due_date sorts first
DueKeyMissingFirst(x) == IF x.due_date # None THEN x.due_date[1] ELSE 0

\* key=lambda x: x.get("due_date") or datetime.max
DueKey(x) == IF x.due_date # None THEN x.due_date[1] ELSE DatetimeMax

RECURSIVE InsertByDue(_, _)
InsertByDue(sorted, x) ==
    IF sorted = <<>> THEN <<x>>
    ELSE IF DueKey(x) < DueKey(sorted[Len(sorted)])
         THEN Append(InsertByDue(SubSeq(sorted, 1, Len(sorted) - 1), x), sorted[Len(sorted)])
         ELSE Append(sorted, x)

RECURSIVE SortedByDue(_)
SortedByDue(items) ==
    IF items = <<>> THEN <<>>
    ELSE InsertByDue(SortedByDue(SubSeq(items, 1, Len(items) - 1)), items[Len(items)])

\* courses_map.get(key) over {str(c["_id"]): c for c in db["course"].find({})}
CoursesMapGet(key) ==
    IF \E i \in 1..Len(course) : StrOid(course[i]._id) = key
    THEN Some(course[CHOOSE i \in 1..Len(course) : StrOid(course[i]._id) = key])
    ELSE None

ClassLine(s) ==
    LET c == CoursesMapGet(s.course_id) IN
    [cname |-> IF c # None THEN c[1].code \o Dash \o c[1].name ELSE CoursePlaceholder,
     start_time |-> s.start_time,
     location |-> IF Truthy(s.location) THEN s.location[1] ELSE TBA]

ClassAnswer(today) ==
    LET sessions == SortedByStartTime(Find(classsession, [weekday |-> today])) IN
    IF sessions = <<>> THEN Answer("No classes scheduled for today.", <<>>)
    ELSE Answer("Today: {lines}", [i \in 1..Len(sessions) |-> ClassLine(sessions[i])])

AssignmentAnswer ==
    LET items == Find(assignment, [completed |-> FALSE]) IN
    IF items = <<>> THEN Answer("No pending assignments.", <<>>)
    ELSE LET sorted == SortedByDue(items)
             top == SubSeq(sorted, 1, IF Len(sorted) < TopCount THEN Len(sorted) ELSE TopCount)
         IN Answer("Top upcoming: {titles}", [i \in 1..Len(top) |-> top[i].title])

NoteAnswer ==
    Answer("You have {count} notes. Try 'list notes' to view in the app.", <<Len(note)>>)

FallbackAnswer ==
    Answer("I'm a simple helper. Ask about classes, assignments, or notes.", <<>>)

\* mutant: the note branch is tested before the others
ChatbotAnswerNoteFirst(q, today) ==
    LET ql == Lower(q) IN
    IF Contains(ql, NoteKw) THEN NoteAnswer
    ELSE IF Contains(ql, NextClassKw) \/ Contains(ql, UpcomingClassKw) THEN ClassAnswer(today)
    ELSE IF Contains(ql, DueKw) \/ Contains(ql, AssignmentKw) THEN AssignmentAnswer
    ELSE FallbackAnswer

ChatbotAnswer(q, today) ==
    LET ql == Lower(q) IN
    IF Contains(ql, NextClassKw) \/ Contains(ql, UpcomingClassKw) THEN ClassAnswer(today)
    ELSE IF Contains(ql, DueKw) \/ Contains(ql, AssignmentKw) THEN AssignmentAnswer
    ELSE IF Contains(ql, NoteKw) THEN NoteAnswer
    ELSE FallbackAnswer

\* today is datetime.utcnow().weekday(), read by the class branch.  The class
\* branch reads the sessions and then the courses; courses are only ever added,
\* so the later read of the courses is taken together with that of the sessions.
chatbot(q, today) ==
    /\ req' = [op |-> "chatbot", q |-> q, today |-> today]
    /\ resp' = Ok("chatbot", [answer |-> ChatbotAnswer(q, today)])
    /\ UNCHANGED <<store, pending, returned>>

-----------------------------------------------------------------------------
(* Diagnostics *)

\* db.list_collection_names(): a collection exists once a document was inserted
CollectionNames ==
    (IF course # <<>> THEN <<"course">> ELSE <<>>)
    \o (IF classsession # <<>> THEN <<"classsession">> ELSE <<>>)
    \o (IF assignment # <<>> THEN <<"assignment">> ELSE <<>>)
    \o (IF note # <<>> THEN <<"note">> ELSE <<>>)
    \o (IF focussession # <<>> THEN <<"focussession">> ELSE <<>>)

test_database(url_set, name_set) ==
    /\ req' = [op |-> "test_database"]
    /\ resp' = Ok("test_database",
                   [backend |-> "Running",
                    database |-> "Connected & Working",
                    database_url |-> IF url_set THEN "Set" ELSE "Not Set",
                    database_name |-> IF name_set THEN "Set" ELSE "Not Set",
                    connection_status |-> "Connected",
                    collections |-> SubSeq(CollectionNames, 1,
                                           IF Len(CollectionNames) < 10
                                           THEN Len(CollectionNames) ELSE 10)])
    /\ UNCHANGED <<store, pending, returned>>

-----------------------------------------------------------------------------
(* Requests *)

CS == <<"C","S">>
MA == <<"M","A">>
Algo == <<"A","l","g","o">>
Math == <<"m","a","t","h">>
Hw1 == <<"h","w","1">>
Hw2 == <<"h","w","2">>
Work == <<"w","o","r","k">>
Medium == <<"m","e","d","i","u","m">>
R1 == <<"R","1">>
T0900 == <<"0","9",":","0","0">>
T1030 == <<"1","0",":","3","0">>
T900 == <<"9",":","0","0">>
T1000 == <<"1","0",":","0","0">>

CourseIn(code, name) ==
    [code |-> code, name |-> name, semester |-> None, instructor |-> None,
     location |-> None, color |-> None]

ClassSessionIn(course_id, weekday, start_time, location) ==
    [course_id |-> course_id, weekday |-> weekday, start_time |-> start_time,
     end_time |-> T1030, location |-> location]

AssignmentIn(course_id, title, due_date, completed) ==
    [course_id |-> course_id, title |-> title, description |-> None, due_date |-> due_date,
     priority |-> Some(Medium), subtasks |-> <<>>, completed |-> completed]

NoteIn(title, subject) == [title |-> title, content |-> <<>>, subject |-> subject, tags |-> <<>>]

FocusSessionIn(duration_minutes) ==
    [started_at |-> 1, duration_minutes |-> duration_minutes, type |-> Work]

\* spellings of course identifiers a client may send: the store's spelling of the
\* first two course identifiers, the first in upper case, and three strings that
\* are no identifier (empty, not hexadecimal, too long)
FirstCourseId == StrOid(CourseOidBase)
SecondCourseId == StrOid(CourseOidBase + 1)
Malformed == {<<>>, <<"z","z">>, Append(FirstCourseId, "0")}
CourseIdInputs == {FirstCourseId, Upper(FirstCourseId), SecondCourseId} \cup Malformed
CourseIdFilters == {None} \cup {Some(c) : c \in CourseIdInputs}

InFlight == Cardinality({w \in Workers : pending[w] # None})

-----------------------------------------------------------------------------
(* Spec: the whole API under concurrent requests *)

CourseInputs == {CourseIn(c, Algo) : c \in {CS, MA}}
WeekdayInputs == {-1, 0, 7}
ClassSessionInputs ==
    {ClassSessionIn(c, d, T0900, None) : c \in {FirstCourseId, <<"z","z">>}, d \in WeekdayInputs}
AssignmentInputs == {AssignmentIn(None, Hw1, None, b) : b \in BOOLEAN}
NoteInputs == {NoteIn(Hw1, Some(Math))}
FocusSessionInputs == {FocusSessionIn(d) : d \in {0, 25}}

QNextClass == <<"N","e","x","t"," ","c","l","a","s","s","?">>
QDue == <<"w","h","a","t"," ","i","s"," ","D","U","E">>
QNotes == <<"m","y"," ","N","o","t","e","s">>
QHello == <<"h","e","l","l","o">>
Queries == {QNextClass, QDue, QNotes, QHello}

Docs == Len(course) + Len(classsession) + Len(assignment) + Len(note) + Len(focussession)
            + InFlight

Next ==
    \/ read_root
    \/ Docs < MaxDocs /\ \E c \in CourseInputs : create_course(c)
    \/ list_courses
    \/ Docs < MaxDocs /\ \E w \in Workers, cs \in ClassSessionInputs :
            create_class_session_check(w, cs)
    \/ \E w \in Workers : create_class_session_insert(w)
    \/ \E c \in {None, Some(FirstCourseId)} : list_class_sessions(c)
    \/ Docs < MaxDocs /\ \E a \in AssignmentInputs : create_assignment(a)
    \/ \E b \in {None, Some(FALSE)} : list_assignments(None, b)
    \/ Docs < MaxDocs /\ \E n \in NoteInputs : create_note(n)
    \/ \E sub \in {None, Some(Math)} : list_notes(sub)
    \/ Docs < MaxDocs /\ \E f \in FocusSessionInputs : create_focus_session(f)
    \/ list_focus_sessions
    \/ \E q \in Queries : chatbot(q, 0)
    \/ \E u \in BOOLEAN : test_database(u, u)

Spec == Init /\ [][Next]_vars

-----------------------------------------------------------------------------
(* SpecSessions: courses and class sessions, every spelling of course_id *)

SessionInputs == {ClassSessionIn(c, 0, T0900, None) : c \in CourseIdInputs}

NextSessions ==
    \/ Len(course) < MaxCourses /\ create_course(CourseIn(CS, Algo))
    \/ list_courses
    \/ Len(classsession) + InFlight < MaxClassSessions
          /\ \E w \in Workers, cs \in SessionInputs : create_class_session_check(w, cs)
    \/ \E w \in Workers : create_class_session_insert(w)
    \/ \E c \in CourseIdFilters : list_class_sessions(c)

SpecSessions == Init /\ [][NextSessions]_vars

-----------------------------------------------------------------------------
(* SpecAssignments: assignments under every filter *)

AssignmentCourseIds == {None, Some(<<>>), Some(FirstCourseId), Some(<<"z","z">>)}
FilteredAssignmentInputs ==
    {AssignmentIn(c, Hw1, None, b) : c \in AssignmentCourseIds, b \in BOOLEAN}
CompletedFilters == {None, Some(TRUE), Some(FALSE)}

NextAssignments ==
    \/ Len(assignment) < MaxAssignments
          /\ \E a \in FilteredAssignmentInputs : create_assignment(a)
    \/ \E c \in AssignmentCourseIds \cup {Some(SecondCourseId)}, b \in CompletedFilters :
            list_assignments(c, b)

SpecAssignments == Init /\ [][NextAssignments]_vars

-----------------------------------------------------------------------------
(* SpecChat: the chatbot's choice of branch *)

Space == <<" ">>
Fragments ==
    { <<"N","e","x","t"," ","C","l","a","s","s">>,
      <<"U","P","C","O","M","I","N","G"," ","c","l","a","s","s">>,
      <<"d","u","e">>,
      <<"A","s","s","i","g","n","m","e","n","t">>,
      <<"N","o","t","e">>,
      <<"h","i">>,
      <<"n","e","x","t">>,
      <<"c","l","a","s","s">> }
ChatQueries == Fragments \cup {f \o Space \o g : f \in Fragments, g \in Fragments}

ChatDocs == Len(course) + Len(classsession) + Len(assignment) + Len(note) + InFlight

NextChat ==
    \/ ChatDocs < MaxChatDocs /\ create_course(CourseIn(CS, Algo))
    \/ ChatDocs < MaxChatDocs
          /\ create_class_session_check(1, ClassSessionIn(FirstCourseId, 0, T0900, None))
    \/ create_class_session_insert(1)
    \/ ChatDocs < MaxChatDocs /\ create_assignment(AssignmentIn(None, Hw1, None, FALSE))
    \/ ChatDocs < MaxChatDocs /\ create_note(NoteIn(Hw1, None))
    \/ \E q \in ChatQueries : chatbot(q, 0)

SpecChat == Init /\ [][NextChat]_vars

-----------------------------------------------------------------------------
(* SpecClass: the chatbot's class branch *)

TodaySessionInputs ==
    { ClassSessionIn(FirstCourseId, 0, T0900, None),
      ClassSessionIn(FirstCourseId, 0, T1030, Some(<<>>)),
      ClassSessionIn(Upper(FirstCourseId), 0, T900, None),
      ClassSessionIn(FirstCourseId, 0, T1000, Some(R1)),
      ClassSessionIn(FirstCourseId, 6, T0900, None) }
TodayValues == 0..6

NextClass ==
    \/ course = <<>> /\ create_course(CourseIn(CS, Algo))
    \/ Len(classsession) + InFlight < MaxTodaySessions
          /\ \E cs \in TodaySessionInputs : create_class_session_check(1, cs)
    \/ create_class_session_insert(1)
    \/ \E today \in TodayValues : chatbot(QNextClass, today)

SpecClass == Init /\ [][NextClass]_vars

-----------------------------------------------------------------------------
(* SpecDue: the chatbot's assignment branch *)

DueAssignmentInputs ==
    { AssignmentIn(None, Hw1, None, FALSE),
      AssignmentIn(None, Hw2, Some(1), FALSE),
      AssignmentIn(None, Hw1, Some(2), FALSE),
      AssignmentIn(None, Hw2, Some(2), FALSE),
      AssignmentIn(None, Hw1, Some(1), TRUE) }

NextDue ==
    \/ Len(assignment) < MaxDueAssignments
          /\ \E a \in DueAssignmentInputs : create_assignment(a)
    \/ chatbot(QDue, 0)

SpecDue == Init /\ [][NextDue]_vars

-----------------------------------------------------------------------------
(* Properties *)

Range(f) == {f[x] : x \in DOMAIN f}

\* a well-formed identifier: OidWidth hexadecimal digits of either case
WellFormedId(s) ==
    /\ Len(s) = OidWidth
    /\ \A i \in 1..Len(s) : s[i] \in Range(HexDigits) \cup {UpperChar(d) : d \in Range(HexDigits)}

\* the stored courses a client's spelling of an identifier names
CoursesNamedBy(s) == {i \in 1..Len(course) : StrOid(course[i]._id) = Lower(s)}

\* the fields of a stored document, identifier left out
Fields(doc) == [k \in DOMAIN doc \ {"_id"} |-> doc[k]]

StepOf(op) == req'.op = op
Answered(op) == req.op = op /\ resp.op = op

\* C1: create_class_session answers 400 to a malformed course_id and 404 to a
\* well-formed one that names no stored course, leaving the store as it was; a
\* class session is inserted, and its id returned, only for a course in the store.
C1_CreateClassSessionStep ==
    StepOf("create_class_session") =>
        LET cs == req'.payload IN
        /\ ~WellFormedId(cs.course_id) =>
              /\ resp' = [op |-> "create_class_session", status |-> 400,
                          body |-> [detail |-> "Invalid course_id"]]
              /\ UNCHANGED <<store, pending>>
        /\ WellFormedId(cs.course_id) /\ CoursesNamedBy(cs.course_id) = {} =>
              /\ resp' = [op |-> "create_class_session", status |-> 404,
                          body |-> [detail |-> "Course not found"]]
              /\ UNCHANGED <<store, pending>>
        /\ classsession' # classsession =>
              /\ WellFormedId(cs.course_id) /\ CoursesNamedBy(cs.course_id) # {}
              /\ Len(classsession') = Len(classsession) + 1
              /\ SubSeq(classsession', 1, Len(classsession)) = classsession
              /\ Fields(classsession'[Len(classsession')]) = cs
              /\ resp'.status = 200
              /\ resp'.body = [_id |-> StrOid(classsession'[Len(classsession')]._id)]
\* C1, over every step of the API: the step of create_class_session above
C1_CreateClassSessionErrors == [][C1_CreateClassSessionStep]_vars
C1_Witness ==
    /\ Answered("create_class_session") /\ resp.status = 404
    /\ classsession # <<>>

\* C2: every stored class session names a course that is in the store, whatever
\* the interleaving of the requests.
C2_NoDanglingCourse ==
    \A i \in 1..Len(classsession) :
        /\ WellFormedId(classsession[i].course_id)
        /\ CoursesNamedBy(classsession[i].course_id) # {}
C2_Witness ==
    /\ Len(course) = MaxCourses
    /\ classsession # <<>>
    /\ \E w \in Workers : pending[w] # None /\ pending[w][1].course_id = SecondCourseId

\* what list_class_sessions returns for the sessions that satisfy Keep
SessionsWhere(Keep(_)) == StrIds(SelectSeq(classsession, Keep))

\* C5 as stated: with a course_id given, whatever its form, only sessions with
\* that course_id are returned; without one, all sessions are.
C5_FilterAlwaysApplied ==
    Answered("list_class_sessions") =>
        IF req.course_id = None
        THEN resp.body = SessionsWhere(LAMBDA d : TRUE)
        ELSE \A i \in 1..Len(resp.body) : resp.body[i].course_id = req.course_id[1]

\* C5 amended: a well-formed course_id selects exactly the sessions stored with
\* that spelling; an absent, empty or malformed course_id selects all sessions.
C5_FilterWellFormedOnly ==
    Answered("list_class_sessions") =>
        IF req.course_id # None /\ WellFormedId(req.course_id[1])
        THEN resp.body = SessionsWhere(LAMBDA d : d.course_id = req.course_id[1])
        ELSE resp.body = SessionsWhere(LAMBDA d : TRUE)
C5_Witness ==
    /\ Answered("list_class_sessions")
    /\ req.course_id = Some(FirstCourseId)
    /\ Len(resp.body) = 1 /\ Len(classsession) = 2

\* C3 as stated: stored class sessions have a weekday in 0..6 and stored focus
\* sessions last at least one minute, requests outside the ranges being rejected.
C3_ValidatedRanges ==
    /\ \A i \in 1..Len(classsession) : classsession[i].weekday \in 0..6
    /\ \A i \in 1..Len(focussession) : focussession[i].duration_minutes >= 1

Kinds == {"course", "classsession", "assignment", "note", "focussession"}
Collection(kind) ==
    CASE kind = "course" -> course
      [] kind = "classsession" -> classsession
      [] kind = "assignment" -> assignment
      [] kind = "note" -> note
      [] kind = "focussession" -> focussession

\* what the list handler of a kind returns without a filter
UnfilteredList(kind) == StrIds(get_documents(Collection(kind), NoFilter))

\* C4: every id a create handler has returned names, in every later state,
\* exactly one record of the unfiltered list of its kind, with a non-empty _id
\* and the submitted fields.
C4_AppendOnly ==
    \A kind \in Kinds : \A r \in returned[kind] :
        LET listed == UnfilteredList(kind)
            hits == {i \in 1..Len(listed) : listed[i]._id = r._id}
        IN /\ r._id # <<>>
           /\ Cardinality(hits) = 1
           /\ \A i \in hits : Fields(listed[i]) = r.data
C4_Witness ==
    /\ returned["course"] # {} /\ returned["classsession"] # {} /\ returned["focussession"] # {}
    /\ Answered("chatbot")

\* what list_assignments returns for the assignments that satisfy Keep
AssignmentsWhere(Keep(_)) == StrIds(SelectSeq(assignment, Keep))

\* C6 as stated: completed=b selects the assignments with that flag, a supplied
\* course_id restricts them to that course_id, no filter selects all.
C6_FiltersWhenSupplied ==
    Answered("list_assignments") =>
        resp.body = AssignmentsWhere(LAMBDA d :
            /\ req.completed # None => d.completed = req.completed[1]
            /\ req.course_id # None => d.course_id = req.course_id)

\* C6 amended: the course_id restricts the result when it is a non-empty string;
\* an empty course_id is treated as none.
C6_FiltersWhenNonEmpty ==
    Answered("list_assignments") =>
        resp.body = AssignmentsWhere(LAMBDA d :
            /\ req.completed # None => d.completed = req.completed[1]
            /\ (req.course_id # None /\ req.course_id # Some(<<>>)) => d.course_id = req.course_id)
C6_Witness ==
    /\ Answered("list_assignments")
    /\ req.completed = Some(FALSE) /\ req.course_id = Some(FirstCourseId)
    /\ Len(resp.body) = 1 /\ Len(assignment) = 3

\* case-insensitive occurrence of a lower-case keyword
ContainsCI(q, kw) ==
    \E i \in 1..(Len(q) - Len(kw) + 1) :
        \A j \in 1..Len(kw) : q[i + j - 1] \in {kw[j], UpperChar(kw[j])}

AsksClass(q) == ContainsCI(q, NextClassKw) \/ ContainsCI(q, UpcomingClassKw)
AsksAssignment(q) == ContainsCI(q, DueKw) \/ ContainsCI(q, AssignmentKw)
AsksNote(q) == ContainsCI(q, NoteKw)

\* C7: the class keywords win over the assignment keywords, which win over
\* "note"; the note answer reports the number of stored notes; a query with no
\* keyword gets the fallback; matching ignores case.
C7_BranchPriority ==
    Answered("chatbot") =>
        LET a == resp.body.answer IN
        IF AsksClass(req.q)
        THEN a.template \in {"Today: {lines}", "No classes scheduled for today."}
        ELSE IF AsksAssignment(req.q)
        THEN a.template \in {"Top upcoming: {titles}", "No pending assignments."}
        ELSE IF AsksNote(req.q)
        THEN a = [template |-> "You have {count} notes. Try 'list notes' to view in the app.",
                  args |-> <<Len(note)>>]
        ELSE a = [template |-> "I'm a simple helper. Ask about classes, assignments, or notes.",
                  args |-> <<>>]
C7_Witness ==
    /\ Answered("chatbot")
    /\ AsksClass(req.q) /\ AsksNote(req.q)
    /\ resp.body.answer.template = "Today: {lines}"
    /\ note # <<>>

\* assignment i is due strictly before assignment j, a missing due_date being
\* after every date
DueBefore(i, j) ==
    /\ assignment[i].due_date # None
    /\ assignment[j].due_date = None \/ assignment[i].due_date[1] < assignment[j].due_date[1]
PendingAssignments == {i \in 1..Len(assignment) : ~assignment[i].completed}

\* C8: the assignment answer lists the titles of the first five pending
\* assignments in ascending due_date order, those without a due_date last;
\* with no pending assignment it is the fixed message.
C8_TopFivePending ==
    (Answered("chatbot") /\ ~AsksClass(req.q) /\ AsksAssignment(req.q)) =>
        LET a == resp.body.answer
            P == PendingAssignments
            n == IF Cardinality(P) < 5 THEN Cardinality(P) ELSE 5
        IN IF P = {} THEN a = [template |-> "No pending assignments.", args |-> <<>>]
           ELSE /\ a.template = "Top upcoming: {titles}"
                /\ Len(a.args) = n
                /\ \A i \in P :
                      LET earlier == Cardinality({j \in P : DueBefore(j, i)})
                          same == {j \in P : ~DueBefore(j, i) /\ ~DueBefore(i, j)}
                          block == {p \in 1..n : earlier < p /\ p <= earlier + Cardinality(same)}
                      IN \A p \in block :
                            Cardinality({r \in block : a.args[r] = a.args[p]})
                              <= Cardinality({j \in same : assignment[j].title = a.args[p]})
C8_Witness ==
    /\ Answered("chatbot")
    /\ Cardinality(PendingAssignments) > 5
    /\ \E i, j \in PendingAssignments :
          /\ i < j /\ DueBefore(j, i) /\ assignment[i].due_date # None
          /\ assignment[i].title # assignment[j].title
    /\ \E i, j \in PendingAssignments : i < j /\ assignment[i].due_date = None /\ DueBefore(j, i)

SessionsOn(day) == {i \in 1..Len(classsession) : classsession[i].weekday = day}
ShownLocation(s) == IF s.location = None \/ s.location = Some(<<>>) THEN TBA ELSE s.location[1]

\* C9: the class answer has one entry per class session stored for the current
\* weekday, in ascending string order of start_time; with none it is the fixed
\* message.
C9_TodaySessionsSorted ==
    (Answered("chatbot") /\ AsksClass(req.q)) =>
        LET a == resp.body.answer
            S == SessionsOn(req.today)
        IN IF S = {} THEN a = [template |-> "No classes scheduled for today.", args |-> <<>>]
           ELSE /\ a.template = "Today: {lines}"
                /\ Len(a.args) = Cardinality(S)
                /\ \A p, r \in 1..Len(a.args) :
                      p < r => ~StrLess(a.args[r].start_time, a.args[p].start_time)
                /\ \A i \in S :
                      Cardinality({p \in 1..Len(a.args) :
                                      /\ a.args[p].start_time = classsession[i].start_time
                                      /\ a.args[p].location = ShownLocation(classsession[i])})
                        = Cardinality({j \in S :
                                      /\ classsession[j].start_time = classsession[i].start_time
                                      /\ ShownLocation(classsession[j]) = ShownLocation(classsession[i])})
C9_Witness ==
    /\ Answered("chatbot") /\ req.today = 0
    /\ Len(classsession) = 3 /\ Cardinality(SessionsOn(0)) = 2
    /\ classsession[1].start_time = T900 /\ classsession[1].weekday = 0
    /\ classsession[2].weekday = 6
    /\ classsession[3].start_time = T1030

CourseNames == {course[i].code \o <<" ","-"," ">> \o course[i].name : i \in 1..Len(course)}

\* C10 as stated: every entry of the class answer begins with the code and name
\* of a stored course, never with the placeholder.
C10_EverySessionJoined ==
    (Answered("chatbot") /\ resp.body.answer.template = "Today: {lines}") =>
        \A p \in 1..Len(resp.body.answer.args) :
            /\ resp.body.answer.args[p].cname # <<"C","o","u","r","s","e">>
            /\ resp.body.answer.args[p].cname \in CourseNames

====
